---- MODULE Spec2Model ----
(***************************************************************************)
(* State-machine model of two Ansible modules:                             *)
(*   cloud/misc/proxmox.py          lifecycle of an OpenVZ container in a   *)
(*                                  Proxmox VE cluster                      *)
(*   monitoring/datadog_monitor.py  registration of a Datadog monitor       *)
(*                                                                         *)
(* One behaviour is one invocation of one module.  Spec runs proxmox.py,    *)
(* MonitorSpec runs datadog_monitor.py.  exit_json and fail_json end the    *)
(* process (SystemExit, which "except Exception" does not catch), so each   *)
(* of them moves pc to "done".                                              *)
(***************************************************************************)
EXTENDS Integers, Sequences, FiniteSets, TLC

VARIABLES
    pc,          \* position of the invocation in the module's code
    params,      \* module.params of the proxmox invocation
    cluster,     \* the VMs of the cluster (proxmox.cluster.resources)
    vm,          \* main's local vm: the result of get_instance
    timeout,     \* the local timeout counter of the running poller
    tasks,       \* the task handles obtained so far, in order
    calls,       \* the mutating calls issued to the cluster, in order
    waits,       \* time.sleep(1) calls made by the running poller
    pollResult,  \* how the last poller ended
    outcome,     \* what exit_json / fail_json reported
    nOutcomes,   \* how many times exit_json / fail_json were called
    dparams,     \* module.params of the datadog invocation
    monitors,    \* the monitors the Datadog account holds, as the API lists them
    lookup,      \* status of the monitor-list GET made by installed()
    listing,     \* installed()'s local monitors: the list the GET returned
    gets,        \* number of monitor-list GETs issued
    posts,       \* bodies of the registration POSTs issued, in order
    response,    \* post_monitor's (response, info) of the registration POST
    crashed,     \* the process died of an uncaught exception
    self,        \* which invocation of proxmox.py the local state above is of
    other        \* the local state of the other invocation, when there are two

vars == <<pc, params, cluster, vm, timeout, tasks, calls, waits, pollResult,
          outcome, nOutcomes, dparams, monitors, lookup, listing, gets,
          posts, response, crashed, self, other>>

pvars == <<params, cluster, vm, timeout, tasks, calls, waits, pollResult>>
dvars == <<dparams, monitors, lookup, listing, gets, posts, response, crashed>>
rvars == <<self, other>>

(***************************************************************************)
(* Bounds of the model.                                                    *)
(***************************************************************************)
MaxTimeout == 3

\* A counter that started below zero is followed down to -NegDepth.
NegDepth == 4

\* The repeated runs of datadog_monitor.py are followed while the remote
\* monitor set holds fewer monitors than this
MaxMonitors == 3

None == "None"

\* No registration POST has been answered.
NoResponse == [status |-> 0, id |-> None]

(***************************************************************************)
(* Result reporting (AnsibleModule.exit_json / fail_json).                 *)
(***************************************************************************)
NoOutcome == [kind |-> "none", changed |-> FALSE, msg |-> "none"]

exit_json(changed, msg) ==
    /\ outcome' = [kind |-> "exit", changed |-> changed, msg |-> msg]
    /\ nOutcomes' = nOutcomes + 1
    /\ pc' = "done"

fail_json(msg) ==
    /\ outcome' = [kind |-> "fail", changed |-> FALSE, msg |-> msg]
    /\ nOutcomes' = nOutcomes + 1
    /\ pc' = "done"

\* main() returns without having called exit_json or fail_json.
EndOfMain ==
    /\ pc' = "done"
    /\ UNCHANGED <<outcome, nOutcomes>>

(***************************************************************************)
(* The state that is local to one invocation of proxmox.py.                *)
(***************************************************************************)
Context ==
    [pc |-> pc, vm |-> vm, timeout |-> timeout, tasks |-> tasks, waits |-> waits,
     pollResult |-> pollResult, outcome |-> outcome, nOutcomes |-> nOutcomes]

\* An invocation that has not started, with its timeout parameter
FreshContext(budget) ==
    [pc |-> "main", vm |-> {}, timeout |-> budget, tasks |-> <<>>, waits |-> 0,
     pollResult |-> "none", outcome |-> NoOutcome, nOutcomes |-> 0]

\* There is no second invocation.
NoOther == [FreshContext(0) EXCEPT !.pc = "done"]

(***************************************************************************)
(* proxmox.py: the cluster as the module reads it.                         *)
(***************************************************************************)
VmidParam == "100"
OtherVm == [vmid |-> 101, node |-> "node1", status |-> "running"]
ClusterNodes == {"node1"}
StorageContent == {"tmpl1"}
Statuses == {"running", "stopped", "mounted"}
States == {"present", "started", "stopped", "restarted", "absent"}

\* int(vmid) of a vmid given as a string
int(s) == CASE s = "100" -> 100 [] s = "101" -> 101 [] OTHER -> 0

\* int(module.params['force']) of a boolean
boolint(b) == IF b THEN 1 ELSE 0

get_instance(resources, vmid) == {v \in resources : v.vmid = int(vmid)}

node_check(nodes, node) == {nd \in nodes : nd = node}

content_check(content, ostemplate) == {cnt \in content : cnt = ostemplate}

\* Python truth value of a string-or-None parameter
Truthy(x) == x # None /\ x # ""

\* "x and y and z" over parameters: the first falsy operand, else the last
AndChain(h, p, o) == IF ~Truthy(h) THEN h ELSE IF ~Truthy(p) THEN p ELSE o

\* not (node, hostname and password and ostemplate): the operand is a tuple of
\* two elements, and a non-empty tuple is true whatever it holds.
mandatory_missing(node, hostname, password, ostemplate) ==
    LET tuple == <<node, AndChain(hostname, password, ostemplate)>>
    IN  ~ (Len(tuple) # 0)

\* status.current.get()['status'] of the VM the local vm names
current_status(resources, vmid) ==
    (CHOOSE v \in get_instance(resources, vmid) : TRUE).status

\* The status the cluster holds for the vmid when a call reaches it.
observed(resources, vmid) ==
    IF get_instance(resources, vmid) = {} THEN "absent"
    ELSE current_status(resources, vmid)

(***************************************************************************)
(* Tasks.  A task handle is the index of the task in tasks.  A task is      *)
(* terminal from age at on (age counts the seconds slept since the call     *)
(* that returned it) with exitstatus exit; exit "none" is a task that never *)
(* becomes terminal.                                                        *)
(***************************************************************************)
TaskBehaviours ==
    {[at |-> 0, exit |-> "none"]} \cup [at : 0..MaxTimeout, exit : {"OK", "ERR"}]

Terminal(t) == t.exit # "none" /\ t.age >= t.at

\* tasks(taskid).status.get()
task_status(t) ==
    IF Terminal(t) THEN [status |-> "stopped", exitstatus |-> t.exit]
                   ELSE [status |-> "running", exitstatus |-> "none"]

\* What a task that ended OK has done to the cluster.
Effect(resources, t) ==
    LET mine == {v \in resources : v.vmid = t.vmid}
        rest == resources \ mine
        set(st) == rest \cup {[v EXCEPT !.status = st] : v \in mine}
    IN  CASE t.op = "create"   -> rest \cup {[vmid |-> t.vmid, node |-> t.node,
                                              status |-> "stopped"]}
          [] t.op = "start"    -> set("running")
          [] t.op = "shutdown" -> set("stopped")
          [] t.op = "umount"   -> set("stopped")
          [] t.op = "delete"   -> rest

RECURSIVE ApplyDue(_, _, _)
\* The cluster after the tasks ts[i..] that become terminal now have acted.
ApplyDue(resources, ts, i) ==
    IF i > Len(ts) THEN resources
    ELSE ApplyDue(IF ts[i].exit = "OK" /\ ts[i].age = ts[i].at
                     THEN Effect(resources, ts[i]) ELSE resources, ts, i + 1)

NoKwargs == [password |-> None, hostname |-> None, ostemplate |-> None]

\* A mutating call: the cluster records it and hands back a new task; the
\* function that made the call polls with its own copy of the timeout.
Issue(op, node, force, kwargs, beh) ==
    LET t == [op |-> op, vmid |-> int(params.vmid), node |-> node,
              at |-> beh.at, exit |-> beh.exit, age |-> 0, seenOK |-> FALSE]
    IN  /\ calls' = Append(calls, [op |-> op, vmid |-> int(params.vmid),
                                   node |-> node, force |-> force,
                                   kwargs |-> kwargs, by |-> self,
                                   status |-> observed(cluster, params.vmid)])
        /\ tasks' = Append(tasks, t)
        /\ cluster' = ApplyDue(cluster, <<t>>, 1)
        /\ timeout' = params.timeout
        /\ waits' = 0
        /\ pollResult' = "none"

\* time.sleep(1): one second passes for every task.
Slept(ts) == [i \in 1..Len(ts) |-> [ts[i] EXCEPT !.age = @ + 1]]

(***************************************************************************)
(* The polling loop that create_instance, start_instance, stop_instance,   *)
(* umount_instance and the state == 'absent' branch of main each contain:  *)
(*     while timeout:                                                      *)
(*       if status == 'stopped' and exitstatus == 'OK': <success>          *)
(*       timeout = timeout - 1                                             *)
(*       if timeout == 0: fail_json(... % <log of the task>)               *)
(*       time.sleep(1)                                                     *)
(* One step is the loop test followed by one pass through the body.  The   *)
(* two status reads of the condition happen with no sleep between them.    *)
(***************************************************************************)
\* Names bound where each timeout message is built (locals, then globals).
Names(fn) ==
    CASE fn = "create_instance" ->
           {"module", "proxmox", "vmid", "node", "timeout", "proxmox_node", "taskid"}
      [] fn = "start_instance" -> {"module", "proxmox", "vm", "vmid", "timeout", "taskid"}
      [] fn = "stop_instance" ->
           {"module", "proxmox", "vm", "vmid", "timeout", "force", "taskid"}
      [] fn = "umount_instance" -> {"module", "proxmox", "vm", "vmid", "timeout", "taskid"}
      [] fn = "main" -> {"module", "proxmox", "vm", "vmid", "timeout", "node", "taskid"}

\* The name each function reads the task log through.
LogVia(fn) ==
    IF fn = "start_instance" THEN "proxmox" ELSE "proxmox_node"

\* The message of the except clause of main's branch for the requested state.
ExceptMsg(state) ==
    CASE state = "present"   -> "exception:creation"
      [] state = "started"   -> "exception:starting"
      [] state = "stopped"   -> "exception:stopping"
      [] state = "restarted" -> "exception:restarting"
      [] state = "absent"    -> "exception:deletion"

\* The timeout == 0 branch: fail_json with the timeout message, unless building
\* the message raises NameError, which main's "except Exception" reports.
timeout_report(fn, msg) ==
    IF LogVia(fn) \in Names(fn) THEN fail_json(msg)
    ELSE fail_json(ExceptMsg(params.state))

SeenOK(ts) == [ts EXCEPT ![Len(ts)].seenOK = TRUE]

poll(fn, msg, retTrue, retFalse) ==
    /\ timeout > 0 - NegDepth
    /\ LET t == tasks[Len(tasks)]
       IN
        IF timeout = 0
        THEN \* while timeout: is false, the function falls off the loop
             /\ pollResult' = "exhausted"
             /\ pc' = retFalse
             /\ UNCHANGED <<timeout, tasks, cluster, waits, outcome, nOutcomes>>
        ELSE IF /\ task_status(t).status = "stopped"
                /\ task_status(t).exitstatus = "OK"
        THEN /\ pollResult' = "success"
             /\ tasks' = SeenOK(tasks)
             /\ pc' = retTrue
             /\ UNCHANGED <<timeout, cluster, waits, outcome, nOutcomes>>
        ELSE IF timeout - 1 = 0
        THEN /\ timeout' = timeout - 1
             /\ pollResult' = "timeout"
             /\ timeout_report(fn, msg)
             /\ UNCHANGED <<tasks, cluster, waits>>
        ELSE /\ timeout' = timeout - 1
             /\ waits' = waits + 1
             /\ tasks' = Slept(tasks)
             /\ cluster' = ApplyDue(cluster, Slept(tasks), 1)
             /\ UNCHANGED <<pc, pollResult, outcome, nOutcomes>>

(***************************************************************************)
(* main(): the checks before the branch on state.                          *)
(***************************************************************************)
main_connect ==
    /\ pc = "main"
    /\ IF ~params.has_proxmoxer
       THEN fail_json("proxmoxer_required")
       ELSE IF ~Truthy(params.api_password) /\ params.env_password = None
       THEN fail_json("password_required")
       ELSE IF ~params.auth_ok
       THEN fail_json("authorization_failed")
       ELSE /\ pc' = "state"
            /\ UNCHANGED <<outcome, nOutcomes>>
    /\ UNCHANGED <<pvars, dvars, rvars>>

(***************************************************************************)
(* state == 'present'                                                      *)
(***************************************************************************)
\* present_gate behind a fence: a create call in flight for the vmid counts
\* as the VM being there
present_gate_fenced(resources, p) ==
    IF (\/ get_instance(resources, p.vmid) # {}
        \/ \E i \in 1..Len(calls) :
              calls[i].op = "create" /\ calls[i].vmid = int(p.vmid)) /\ ~p.force
    THEN "already_exists"
    ELSE IF mandatory_missing(p.node, p.hostname, p.password, p.ostemplate)
    THEN "mandatory"
    ELSE IF node_check(ClusterNodes, p.node) = {}
    THEN "node_not_exists"
    ELSE IF content_check(StorageContent, p.ostemplate) = {}
    THEN "ostemplate_not_exists"
    ELSE "create"

present_gate_ignores_force(resources, p) ==
    IF get_instance(resources, p.vmid) # {}
    THEN "already_exists"
    ELSE IF mandatory_missing(p.node, p.hostname, p.password, p.ostemplate)
    THEN "mandatory"
    ELSE IF node_check(ClusterNodes, p.node) = {}
    THEN "node_not_exists"
    ELSE IF content_check(StorageContent, p.ostemplate) = {}
    THEN "ostemplate_not_exists"
    ELSE "create"

\* present_gate with the template looked up before the node
present_gate_template_first(resources, p) ==
    IF get_instance(resources, p.vmid) # {} /\ ~p.force
    THEN "already_exists"
    ELSE IF mandatory_missing(p.node, p.hostname, p.password, p.ostemplate)
    THEN "mandatory"
    ELSE IF content_check(StorageContent, p.ostemplate) = {}
    THEN "ostemplate_not_exists"
    ELSE IF node_check(ClusterNodes, p.node) = {}
    THEN "node_not_exists"
    ELSE "create"

\* The if / elif chain of lines 304-312: the branch taken.
present_gate(resources, p) ==
    IF get_instance(resources, p.vmid) # {} /\ ~p.force
    THEN "already_exists"
    ELSE IF mandatory_missing(p.node, p.hostname, p.password, p.ostemplate)
    THEN "mandatory"
    ELSE IF node_check(ClusterNodes, p.node) = {}
    THEN "node_not_exists"
    ELSE IF content_check(StorageContent, p.ostemplate) = {}
    THEN "ostemplate_not_exists"
    ELSE "create"

main_present ==
    /\ pc = "state" /\ params.state = "present"
    /\ LET branch == present_gate(cluster, params)
       IN  IF branch = "already_exists" THEN exit_json(FALSE, branch)
           ELSE IF branch = "create"
           THEN pc' = "create_instance" /\ UNCHANGED <<outcome, nOutcomes>>
           ELSE fail_json(branch)
    /\ UNCHANGED <<pvars, dvars, rvars>>

create_instance ==
    /\ pc = "create_instance"
    /\ \E beh \in TaskBehaviours :
         Issue("create", params.node, boolint(params.force),
               [password |-> params.password, hostname |-> params.hostname,
                ostemplate |-> params.ostemplate], beh)
    /\ pc' = "create_loop"
    /\ UNCHANGED <<params, vm, outcome, nOutcomes, dvars, rvars>>

create_instance_loop ==
    /\ pc = "create_loop"
    /\ poll("create_instance", "timeout:creating", "created", "created")
    /\ UNCHANGED <<params, vm, calls, dvars, rvars>>

\* line 326: reached whatever create_instance returned (True or None)
main_present_deployed ==
    /\ pc = "created"
    /\ exit_json(TRUE, "deployed")
    /\ UNCHANGED <<pvars, dvars, rvars>>

(***************************************************************************)
(* state == 'started'                                                      *)
(***************************************************************************)
main_started ==
    /\ pc = "state" /\ params.state = "started"
    /\ vm' = get_instance(cluster, params.vmid)
    /\ IF vm' = {} THEN fail_json("not_exists")
       ELSE IF current_status(cluster, params.vmid) = "running"
       THEN exit_json(FALSE, "already_running")
       ELSE pc' = "start_instance" /\ UNCHANGED <<outcome, nOutcomes>>
    /\ UNCHANGED <<params, cluster, timeout, tasks, calls, waits, pollResult, dvars, rvars>>

VmNode == (CHOOSE v \in vm : TRUE).node

start_instance ==
    /\ pc = "start_instance"
    /\ \E beh \in TaskBehaviours : Issue("start", VmNode, 0, NoKwargs, beh)
    /\ pc' = "start_loop"
    /\ UNCHANGED <<params, vm, outcome, nOutcomes, dvars, rvars>>

start_instance_loop ==
    /\ pc = "start_loop"
    /\ poll("start_instance", "timeout:starting", "start_true", "start_false")
    /\ UNCHANGED <<params, vm, calls, dvars, rvars>>

\* lines 338-339 and 375-376: the value start_instance returned decides
main_after_start ==
    /\ pc \in {"start_true", "start_false"}
    /\ IF pc = "start_true"
       THEN exit_json(TRUE, IF params.state = "started" THEN "started" ELSE "restarted")
       ELSE EndOfMain
    /\ UNCHANGED <<pvars, dvars, rvars>>

(***************************************************************************)
(* state == 'stopped'                                                      *)
(***************************************************************************)
main_stopped ==
    /\ pc = "state" /\ params.state = "stopped"
    /\ vm' = get_instance(cluster, params.vmid)
    /\ IF vm' = {} THEN fail_json("not_exists")
       ELSE IF current_status(cluster, params.vmid) = "mounted"
       THEN IF params.force
            THEN pc' = "umount_instance" /\ UNCHANGED <<outcome, nOutcomes>>
            ELSE exit_json(FALSE, "already_shutdown_mounted")
       ELSE pc' = "stopped_check" /\ UNCHANGED <<outcome, nOutcomes>>
    /\ UNCHANGED <<params, cluster, timeout, tasks, calls, waits, pollResult, dvars, rvars>>

umount_instance ==
    /\ pc = "umount_instance"
    /\ \E beh \in TaskBehaviours : Issue("umount", VmNode, 0, NoKwargs, beh)
    /\ pc' = "umount_loop"
    /\ UNCHANGED <<params, vm, outcome, nOutcomes, dvars, rvars>>

umount_instance_loop ==
    /\ pc = "umount_loop"
    /\ poll("umount_instance", "timeout:unmounting", "umount_true", "stopped_check")
    /\ UNCHANGED <<params, vm, calls, dvars, rvars>>

main_umounted ==
    /\ pc = "umount_true"
    /\ exit_json(TRUE, "shutting_down")
    /\ UNCHANGED <<pvars, dvars, rvars>>

\* lines 357-360: the status is read again; also reached when umount_instance
\* returned False
main_stopped_check ==
    /\ pc = "stopped_check"
    /\ IF current_status(cluster, params.vmid) = "stopped"
       THEN exit_json(FALSE, "already_shutdown")
       ELSE pc' = "stop_instance" /\ UNCHANGED <<outcome, nOutcomes>>
    /\ UNCHANGED <<pvars, dvars, rvars>>

stop_instance ==
    /\ pc = "stop_instance"
    /\ \E beh \in TaskBehaviours :
         Issue("shutdown", VmNode, boolint(params.force), NoKwargs, beh)
    /\ pc' = "stop_loop"
    /\ UNCHANGED <<params, vm, outcome, nOutcomes, dvars, rvars>>

stop_instance_loop ==
    /\ pc = "stop_loop"
    /\ poll("stop_instance", "timeout:stopping", "stop_true", "stop_false")
    /\ UNCHANGED <<params, vm, calls, dvars, rvars>>

\* lines 360-361 and 374-375: the value stop_instance returned decides
main_after_stop ==
    /\ pc \in {"stop_true", "stop_false"}
    /\ IF pc = "stop_false" THEN EndOfMain
       ELSE IF params.state = "stopped" THEN exit_json(TRUE, "shutting_down")
       ELSE pc' = "start_instance" /\ UNCHANGED <<outcome, nOutcomes>>
    /\ UNCHANGED <<pvars, dvars, rvars>>

(***************************************************************************)
(* state == 'restarted'                                                    *)
(***************************************************************************)
main_restarted ==
    /\ pc = "state" /\ params.state = "restarted"
    /\ vm' = get_instance(cluster, params.vmid)
    /\ IF vm' = {} THEN fail_json("not_exists")
       ELSE IF \/ current_status(cluster, params.vmid) = "stopped"
               \/ current_status(cluster, params.vmid) = "mounted"
       THEN exit_json(FALSE, "not_running")
       ELSE pc' = "stop_instance" /\ UNCHANGED <<outcome, nOutcomes>>
    /\ UNCHANGED <<params, cluster, timeout, tasks, calls, waits, pollResult, dvars, rvars>>

(***************************************************************************)
(* state == 'absent'                                                       *)
(***************************************************************************)
\* absent_gate without the test for a running VM
absent_gate_no_running_test(found, status) ==
    IF found = {} THEN "does_not_exist"
    ELSE IF status = "mounted" THEN "mounted_stop_with_force"
    ELSE "delete"

\* lines 382-392: the branch taken for what get_instance and the status say
absent_gate(found, status) ==
    IF found = {} THEN "does_not_exist"
    ELSE IF status = "running" THEN "running_stop_first"
    ELSE IF status = "mounted" THEN "mounted_stop_with_force"
    ELSE "delete"

\* main_absent reporting a change for a VM that does not exist
main_absent_reports_removed ==
    /\ pc = "state" /\ params.state = "absent"
    /\ vm' = get_instance(cluster, params.vmid)
    /\ LET branch == absent_gate(vm', observed(cluster, params.vmid))
       IN  IF branch = "delete"
           THEN pc' = "delete" /\ UNCHANGED <<outcome, nOutcomes>>
           ELSE exit_json(branch = "does_not_exist", branch)
    /\ UNCHANGED <<params, cluster, timeout, tasks, calls, waits, pollResult, dvars, rvars>>

main_absent ==
    /\ pc = "state" /\ params.state = "absent"
    /\ vm' = get_instance(cluster, params.vmid)
    /\ LET branch == absent_gate(vm', observed(cluster, params.vmid))
       IN  IF branch = "delete"
           THEN pc' = "delete" /\ UNCHANGED <<outcome, nOutcomes>>
           ELSE exit_json(FALSE, branch)
    /\ UNCHANGED <<params, cluster, timeout, tasks, calls, waits, pollResult, dvars, rvars>>

main_absent_delete ==
    /\ pc = "delete"
    /\ \E beh \in TaskBehaviours : Issue("delete", VmNode, 0, NoKwargs, beh)
    /\ pc' = "delete_loop"
    /\ UNCHANGED <<params, vm, outcome, nOutcomes, dvars, rvars>>

main_absent_loop ==
    /\ pc = "delete_loop"
    /\ poll("main", "timeout:removing", "delete_true", "delete_false")
    /\ UNCHANGED <<params, vm, calls, dvars, rvars>>

\* line 396 inside the loop, and the end of main after the loop
main_after_delete ==
    /\ pc \in {"delete_true", "delete_false"}
    /\ IF pc = "delete_true" THEN exit_json(TRUE, "removed") ELSE EndOfMain
    /\ UNCHANGED <<pvars, dvars, rvars>>

(***************************************************************************)
(* One invocation of proxmox.py.                                           *)
(***************************************************************************)
Timeouts == 0..MaxTimeout

\* hostname, password, ostemplate and node are read by state == 'present' only
PresentParams ==
    [node : {None, "node1", "nodeX"}, hostname : {None, "host"},
     password : {None, "secret"}, ostemplate : {None, "tmpl1", "tmplX"}]

NoPresentParams ==
    {[node |-> None, hostname |-> None, password |-> None, ostemplate |-> None]}

InvocationsOver(budgets) ==
    {[state |-> s, vmid |-> VmidParam, force |-> f, timeout |-> t,
      node |-> c.node, hostname |-> c.hostname, password |-> c.password,
      ostemplate |-> c.ostemplate, has_proxmoxer |-> h, api_password |-> a,
      env_password |-> e, auth_ok |-> k] :
        s \in States, f \in BOOLEAN, t \in budgets, h \in BOOLEAN,
        a \in {None, "secret"}, e \in {None, "secret"}, k \in BOOLEAN,
        c \in PresentParams}

Invocations == InvocationsOver(Timeouts)

Clusters ==
    {{OtherVm}} \cup
    {{OtherVm, [vmid |-> int(VmidParam), node |-> "node1", status |-> st]} :
        st \in Statuses}

MonitorIdle ==
    /\ dparams = <<>>
    /\ monitors = <<>>
    /\ lookup = 0
    /\ listing = <<>>
    /\ gets = 0
    /\ posts = <<>>
    /\ response = NoResponse
    /\ crashed = FALSE

InitOver(budgets) ==
    /\ pc = "main"
    /\ params \in {p \in InvocationsOver(budgets) :
                     p.state # "present" =>
                       [node |-> p.node, hostname |-> p.hostname,
                        password |-> p.password, ostemplate |-> p.ostemplate]
                         \in NoPresentParams}
    /\ cluster \in Clusters
    /\ vm = {}
    /\ timeout = params.timeout
    /\ tasks = <<>>
    /\ calls = <<>>
    /\ waits = 0
    /\ pollResult = "none"
    /\ outcome = NoOutcome
    /\ nOutcomes = 0
    /\ self = 1
    /\ other = NoOther
    /\ MonitorIdle

Init == InitOver(Timeouts)

Next ==
    \/ main_connect
    \/ main_present
    \/ create_instance
    \/ create_instance_loop
    \/ main_present_deployed
    \/ main_started
    \/ start_instance
    \/ start_instance_loop
    \/ main_after_start
    \/ main_stopped
    \/ umount_instance
    \/ umount_instance_loop
    \/ main_umounted
    \/ main_stopped_check
    \/ stop_instance
    \/ stop_instance_loop
    \/ main_after_stop
    \/ main_restarted
    \/ main_absent
    \/ main_absent_delete
    \/ main_absent_loop
    \/ main_after_delete

Spec == Init /\ [][Next]_vars

(***************************************************************************)
(* Two invocations of proxmox.py, each a process of its own, with the same  *)
(* declaration (state=present, force unset) and the vmid not in the cluster *)
(* at the start.  They share the cluster and nothing else; the processes    *)
(* run in any interleaving.  The variables of one invocation hold the local *)
(* state of the invocation that takes the next step, other the local state  *)
(* of the one that waits.                                                   *)
(***************************************************************************)
switch ==
    /\ other.pc # "done"
    /\ self' = 3 - self
    /\ other' = Context
    /\ pc' = other.pc
    /\ vm' = other.vm
    /\ timeout' = other.timeout
    /\ tasks' = other.tasks
    /\ waits' = other.waits
    /\ pollResult' = other.pollResult
    /\ outcome' = other.outcome
    /\ nOutcomes' = other.nOutcomes
    /\ UNCHANGED <<params, cluster, calls, dvars>>

RaceInit ==
    /\ pc = "main"
    /\ params \in {p \in Invocations : p.state = "present" /\ ~p.force}
    /\ cluster = {OtherVm}
    /\ vm = {}
    /\ timeout = params.timeout
    /\ tasks = <<>>
    /\ calls = <<>>
    /\ waits = 0
    /\ pollResult = "none"
    /\ outcome = NoOutcome
    /\ nOutcomes = 0
    /\ self = 1
    /\ other = FreshContext(params.timeout)
    /\ MonitorIdle

RaceNext ==
    \/ main_connect
    \/ main_present
    \/ create_instance
    \/ create_instance_loop
    \/ main_present_deployed
    \/ switch

RaceSpec == RaceInit /\ [][RaceNext]_vars

(***************************************************************************)
(* One invocation of proxmox.py with any integer as timeout: the parameter  *)
(* is declared type='int' and nothing checks its sign.                      *)
(***************************************************************************)
AnyTimeouts == (0 - 1)..MaxTimeout

TermInit == InitOver(AnyTimeouts)

TermSpec == TermInit /\ [][Next]_vars

(***************************************************************************)
(* datadog_monitor.py                                                      *)
(***************************************************************************)
OPTIONS == <<"silenced", "notify_no_data", "no_data_timeframe", "timeout_h",
             "renotify_interval", "escalation_message", "notify_audit",
             "thresholds">>

Range(f) == {f[i] : i \in DOMAIN f}

\* installed() with the flag assigned from every monitor, so that the last
\* monitor of the list decides
installed_last_decides(status, list, name) ==
    IF status = 200
    THEN Len(list) > 0 /\ list[Len(list)].name = name
    ELSE FALSE

\* installed(): True when the list was fetched and holds a monitor of the name
installed(status, list, name) ==
    IF status = 200
    THEN \E i \in 1..Len(list) : list[i].name = name
    ELSE FALSE

\* lines 158-162 and 171-173: the body of the registration POST
post_body(p) ==
    LET keys == {"type", "query", "name"} \cup {o \in Range(OPTIONS) : p[o] # None}
    IN  [k \in keys |-> p[k]]

\* thresholds_refused with the type misspelt
thresholds_refused_misspelt(p) == p.type = "metric_alert" /\ p.thresholds # None

\* line 165: thresholds may only be set with service type
thresholds_refused(p) == p.type = "metric alert" /\ p.thresholds # None

\* post_monitor, lines 154-166: nothing has been sent yet
post_monitor ==
    /\ pc = "main"
    /\ IF thresholds_refused(dparams)
       THEN fail_json("thresholds_not_for_metric")
       ELSE pc' = "installed" /\ UNCHANGED <<outcome, nOutcomes>>
    /\ UNCHANGED <<pvars, dvars, rvars>>

\* post_monitor, lines 168-169, with the call of installed(): the GET of the
\* monitor list answers 200 with the list, or another status
post_monitor_installed ==
    /\ pc = "installed"
    /\ \E status \in {200, 500} :
         /\ lookup' = status
         /\ listing' = IF status = 200 THEN monitors ELSE <<>>
         /\ gets' = gets + 1
         /\ IF installed(status, monitors, dparams.name)
            THEN exit_json(FALSE, "installed")
            ELSE pc' = "post" /\ UNCHANGED <<outcome, nOutcomes>>
    /\ UNCHANGED <<pvars, rvars, dparams, monitors, posts, response, crashed>>

\* What the registration POST may answer.  absent: a 200 body without "id".
Responses ==
    {[status |-> 200, id |-> "1"], [status |-> 200, id |-> None],
     [status |-> 200, id |-> "absent"], [status |-> 500, id |-> None]}

\* post_monitor, lines 171-187: the POST and the reading of its response
post_monitor_post ==
    /\ pc = "post"
    /\ posts' = Append(posts, post_body(dparams))
    /\ \E r \in Responses :
         /\ response' = r
         /\ monitors' = IF r.status = 200 /\ r.id \notin {None, "absent"}
                        THEN Append(monitors, [name |-> dparams.name,
                                               query |-> dparams.query])
                        ELSE monitors
         /\ IF r.status = 200
            THEN IF r.id = "absent"
                 THEN \* response_json['id'] raises KeyError, nothing catches it
                      crashed' = TRUE /\ EndOfMain
                 ELSE /\ crashed' = FALSE
                      /\ IF r.id # None THEN exit_json(TRUE, "created")
                         ELSE fail_json("response")
            ELSE crashed' = FALSE /\ fail_json("info")
    /\ UNCHANGED <<pvars, rvars, dparams, lookup, listing, gets>>

DeclaredName == "Test check"

Declarations ==
    [type : {"metric alert", "service check"}, query : {"q1", "q2"},
     name : {DeclaredName}, message : {None, "msg"},
     silenced : {None, "scopes"}, notify_no_data : {"False", "True"},
     no_data_timeframe : {None, "20"}, timeout_h : {None, "24"},
     renotify_interval : {None, "60"}, escalation_message : {None, "esc"},
     notify_audit : {None, "True"}, thresholds : {None, "ok1"}]

MonitorLists ==
    LET same == [name |-> DeclaredName, query |-> "q1"]
        another == [name |-> "Test monitor", query |-> "q1"]
    IN  {<<>>, <<another>>, <<same>>, <<another, same>>, <<same, another>>}

ProxmoxIdle ==
    /\ params = [timeout |-> 0]
    /\ cluster = {}
    /\ vm = {}
    /\ timeout = 0
    /\ tasks = <<>>
    /\ calls = <<>>
    /\ waits = 0
    /\ pollResult = "none"
    /\ self = 1
    /\ other = NoOther

MonitorInit ==
    /\ pc = "main"
    /\ dparams \in Declarations
    /\ monitors \in MonitorLists
    /\ lookup = 0
    /\ listing = <<>>
    /\ gets = 0
    /\ posts = <<>>
    /\ response = NoResponse
    /\ crashed = FALSE
    /\ outcome = NoOutcome
    /\ nOutcomes = 0
    /\ ProxmoxIdle

MonitorNext ==
    \/ post_monitor
    \/ post_monitor_installed
    \/ post_monitor_post

MonitorSpec == MonitorInit /\ [][MonitorNext]_vars

(***************************************************************************)
(* datadog_monitor.py invoked again and again with the same declaration,   *)
(* one invocation after the end of the other.  Each invocation is a new    *)
(* process: all it shares with the one before is the remote monitor set.   *)
(* The runs are followed until the remote set holds MaxMonitors monitors.  *)
(***************************************************************************)
\* main, lines 111-131, of the next run: a new module, nothing fetched, nothing
\* sent, no outcome
reinvoke ==
    /\ pc = "done"
    /\ Len(monitors) < MaxMonitors
    /\ pc' = "main"
    /\ lookup' = 0
    /\ listing' = <<>>
    /\ gets' = 0
    /\ posts' = <<>>
    /\ response' = NoResponse
    /\ crashed' = FALSE
    /\ outcome' = NoOutcome
    /\ nOutcomes' = 0
    /\ UNCHANGED <<pvars, rvars, dparams, monitors>>

\* The monitors of the list that carry the name
Named(list, name) == {i \in 1..Len(list) : list[i].name = name}

RepeatInit ==
    /\ MonitorInit
    /\ Cardinality(Named(monitors, dparams.name)) <= 1

RepeatNext ==
    \/ post_monitor
    \/ post_monitor_installed
    \/ post_monitor_post
    \/ reinvoke

RepeatSpec == RepeatInit /\ [][RepeatNext]_vars

(***************************************************************************)
(* Properties of datadog_monitor.py, checked under MonitorSpec.            *)
(***************************************************************************)
NoChange(msg) == [kind |-> "exit", changed |-> FALSE, msg |-> msg]

Fatal(msg) == [kind |-> "fail", changed |-> FALSE, msg |-> msg]

\* C1: whenever the monitor-list lookup of installed() answers a status other
\* than 200, the monitor is taken to exist: the invocation ends with
\* changed=false and no registration POST is issued.
C1_LookupFailureMeansInstalled ==
    (gets > 0 /\ lookup # 200) =>
        /\ posts = <<>>
        /\ pc = "done" => outcome = NoChange("installed")

\* The attributes of the declaration that the API accepts.
Attributes == {"type", "query", "name", "message"} \cup Range(OPTIONS)

\* C8: a registration POST carries every declared non-null attribute with its
\* declared value: type, query, name, message and each of OPTIONS.
C8_NoAttributeDropped ==
    \A i \in 1..Len(posts) :
        \A a \in Attributes :
            dparams[a] # None =>
                a \in DOMAIN posts[i] /\ posts[i][a] = dparams[a]

\* C9: when the monitor list is fetched (status 200) and holds a monitor of
\* the declared name, the invocation ends with changed=false and issues no
\* registration POST, whatever the other declared attributes are.
C9_EnsureExistsByName ==
    (lookup = 200 /\ \E i \in 1..Len(listing) : listing[i].name = dparams.name) =>
        /\ pc = "done"
        /\ outcome = NoChange("installed")
        /\ posts = <<>>
        /\ monitors = listing

\* C9 happens: a monitor of the name exists with another query, thresholds are
\* declared, and the invocation ended without change.
C9_Witness ==
    /\ outcome = NoChange("installed")
    /\ lookup = 200
    /\ dparams.thresholds # None
    /\ \E i \in 1..Len(listing) :
         listing[i].name = dparams.name /\ listing[i].query # dparams.query

\* C10: with type 'metric alert' and a non-null thresholds declaration the
\* invocation ends with the fatal configuration error and neither the
\* monitor-list GET nor the registration POST is ever issued.
C10_ThresholdsRefusedBeforeAnyCall ==
    (dparams.type = "metric alert" /\ dparams.thresholds # None) =>
        /\ gets = 0
        /\ posts = <<>>
        /\ pc \in {"main", "done"}
        /\ pc = "done" => outcome = Fatal("thresholds_not_for_metric")

\* C10 happens: the invocation was refused, with a monitor list that would
\* have let it register.
C10_Witness ==
    /\ dparams.type = "metric alert"
    /\ dparams.thresholds # None
    /\ pc = "done"
    /\ outcome = Fatal("thresholds_not_for_metric")
    /\ monitors = <<>>

(***************************************************************************)
(* Properties of proxmox.py, checked under Spec.                           *)
(***************************************************************************)
\* main reached the branch on state
ReachedState ==
    /\ params.has_proxmoxer
    /\ Truthy(params.api_password) \/ params.env_password # None
    /\ params.auth_ok
    /\ pc # "main"

\* C2: every invocation ends with exactly one Outcome, for every requested
\* state, VM status, task behaviour and timeout >= 0: main never returns
\* without exit_json or fail_json having been called.
C2_ExactlyOneOutcome ==
    /\ nOutcomes <= 1
    /\ pc = "done" => (nOutcomes = 1 /\ outcome.kind \in {"exit", "fail"})

\* The task the running poller polls
CurrentTask == tasks[Len(tasks)]

\* C3: for a timeout T >= 1 and a task that never reaches terminal success,
\* each poller reports the failure after exactly T one-second waits.
C3_TimeoutAfterExactlyTWaits ==
    (/\ tasks # <<>>
     /\ params.timeout >= 1
     /\ CurrentTask.exit # "OK"
     /\ pollResult = "timeout") => waits = params.timeout

\* C4: for a timeout T >= 1 and a task that first reports terminal success
\* after k waits, 0 <= k <= T, the poller returns success after exactly k
\* waits; in particular k = T is a success and not a timeout.
C4_SuccessAfterExactlyKWaits ==
    (/\ tasks # <<>>
     /\ params.timeout >= 1
     /\ CurrentTask.exit = "OK"
     /\ CurrentTask.at <= params.timeout
     /\ pollResult # "none") => (pollResult = "success" /\ waits = CurrentTask.at)

\* C5: a VM observed running: state=started ends with changed=false and no
\* start call; state=stopped and state=absent never issue a delete call
\* against it while it is running, and state=absent ends with changed=false
\* and the message to stop it first.
C5_RunningResources ==
    /\ \A i \in 1..Len(calls) :
         /\ (calls[i].op = "delete" /\ params.state \in {"stopped", "absent"})
               => calls[i].status # "running"
         /\ (calls[i].op = "start" /\ params.state = "started")
               => calls[i].status # "running"
    /\ (/\ ReachedState /\ pc # "state"
        /\ calls = <<>>
        /\ observed(cluster, params.vmid) = "running") =>
          /\ params.state = "started" =>
               (pc = "done" /\ outcome = NoChange("already_running"))
          /\ params.state = "absent" =>
               (pc = "done" /\ outcome = NoChange("running_stop_first"))

\* C5 happens: state=absent met a running VM and ended without a call.
C5_Witness ==
    /\ params.state = "absent"
    /\ observed(cluster, params.vmid) = "running"
    /\ vm # {}
    /\ pc = "done"
    /\ outcome = NoChange("running_stop_first")
    /\ calls = <<>>

\* state=present goes on to create: no VM of the vmid, or force
CreationAttempted ==
    /\ params.state = "present"
    /\ ReachedState /\ pc # "state"
    /\ (calls = <<>> => (get_instance(cluster, params.vmid) = {} \/ params.force))

\* C6: when creation is attempted and hostname, password or ostemplate is not
\* supplied, the invocation ends with a fatal error and no create call is
\* issued.  (The claim also names the error, the configuration error of line
\* 307; the formula asks for a fatal error of any message.)
C6_MandatoryParameters ==
    (/\ CreationAttempted
     /\ \/ ~Truthy(params.hostname)
        \/ ~Truthy(params.password)
        \/ ~Truthy(params.ostemplate)) =>
        /\ \A i \in 1..Len(calls) : calls[i].op # "create"
        /\ pc = "done" => outcome.kind = "fail"

\* C7: when creation is attempted and neither the node exists in the cluster
\* nor the ostemplate in the storage, the fatal error is the node-existence
\* error, never the template error, and no create call is issued.
C7_NodeErrorFirst ==
    (/\ CreationAttempted
     /\ node_check(ClusterNodes, params.node) = {}
     /\ content_check(StorageContent, params.ostemplate) = {}) =>
        /\ calls = <<>>
        /\ pc = "done"
        /\ outcome = Fatal("node_not_exists")

\* C7 happens: a named node that is not in the cluster, a named template that
\* is not in the storage, and the node error reported.
C7_Witness ==
    /\ CreationAttempted
    /\ params.node = "nodeX"
    /\ params.ostemplate = "tmplX"
    /\ pc = "done"
    /\ outcome = Fatal("node_not_exists")

\* C11: state=absent with a vmid that matches no VM of the cluster ends with
\* changed=false and issues no delete call and no other mutating call.
C11_AbsentOnMissing ==
    (/\ params.state = "absent"
     /\ ReachedState /\ pc # "state"
     /\ vm = {}) =>
        /\ calls = <<>>
        /\ tasks = <<>>
        /\ pc = "done"
        /\ outcome = NoChange("does_not_exist")

\* C11 happens: the cluster holds other VMs, none of the vmid.
C11_Witness ==
    /\ params.state = "absent"
    /\ ReachedState
    /\ get_instance(cluster, params.vmid) = {}
    /\ cluster # {}
    /\ pc = "done"
    /\ outcome = NoChange("does_not_exist")

Changed(msg) == [kind |-> "exit", changed |-> TRUE, msg |-> msg]

\* The stop call of state=restarted was issued and its task status was never
\* read: stop_instance left its loop at the first test of the counter.
StopNeverPolled ==
    /\ Len(tasks) = 1
    /\ tasks[1].op = "shutdown"
    /\ pollResult = "exhausted"

\* The restart order of lines 374-375, whatever the poller of the stop call
\* did: the stop call comes first; the start call is issued only after the
\* stop task was seen in terminal success; changed=true is reported only if
\* both tasks were seen in terminal success; when the stop poll times out no
\* start call is ever issued.
RestartOrder ==
    /\ calls # <<>> => (calls[1].op = "shutdown" /\ calls[1].status = "running")
    /\ \A i \in 1..Len(calls) :
         calls[i].op = "start" =>
             (i = 2 /\ tasks[1].op = "shutdown" /\ tasks[1].seenOK)
    /\ Len(calls) <= 2
    /\ outcome.changed =>
         (Len(tasks) = 2 /\ tasks[1].seenOK /\ tasks[2].seenOK
          /\ tasks[2].op = "start")
    /\ (Len(tasks) = 1 /\ pollResult = "timeout") =>
         (pc = "done" /\ Len(calls) = 1 /\ outcome.kind = "fail")

\* C12: state=restarted on a running VM: the stop call is issued first and
\* polled, that is, stop_instance never returns without having read the status
\* of its task; the start call is issued only after the stop task was seen in
\* terminal success; changed=true is reported only if both tasks were seen in
\* terminal success; when the stop poll times out no start call is ever
\* issued.
C12_RestartOrder ==
    params.state = "restarted" => (RestartOrder /\ ~StopNeverPolled)

\* The statement of C12 for the invocations with a timeout of at least 1.
C12_RestartOrderWithBudget ==
    (params.state = "restarted" /\ params.timeout >= 1) =>
        (RestartOrder /\ ~StopNeverPolled)

\* A running VM was restarted, each task seen to end OK after at least one
\* wait of the stop poller.
C12_Restarted ==
    /\ params.state = "restarted"
    /\ outcome = Changed("restarted")
    /\ Len(calls) = 2
    /\ tasks[1].at > 0
    /\ tasks[1].seenOK /\ tasks[2].seenOK

\* The status state == 'stopped' met when it first read it
FirstStatus ==
    IF calls = <<>> THEN observed(cluster, params.vmid) ELSE calls[1].status

\* C13: state=stopped on an existing VM: 'mounted' without force gives
\* changed=false and no call; 'mounted' with force issues exactly one unmount
\* call and no other, polls it and gives changed=true; 'stopped' gives
\* changed=false and no call; any other status issues exactly one shutdown
\* call, forceStop set exactly when force is, polls it and gives changed=true.
\* A poll that times out may end the invocation with a fatal error instead.
C13_StoppedDecisionTable ==
    (params.state = "stopped" /\ vm # {}) =>
        /\ (FirstStatus = "mounted" /\ ~params.force) =>
             (calls = <<>> /\ pc = "done"
              /\ outcome = NoChange("already_shutdown_mounted"))
        /\ (FirstStatus = "mounted" /\ params.force) =>
             /\ \A i \in 1..Len(calls) : i = 1 /\ calls[i].op = "umount"
             /\ pc = "done" =>
                  (Len(calls) = 1 /\ tasks[1].seenOK
                     /\ outcome = Changed("shutting_down"))
                  \/ (Len(calls) = 1 /\ outcome.kind = "fail")
        /\ FirstStatus = "stopped" =>
             (calls = <<>> /\ (pc = "done" => outcome = NoChange("already_shutdown")))
        /\ FirstStatus = "running" =>
             /\ \A i \in 1..Len(calls) :
                  /\ i = 1 /\ calls[i].op = "shutdown"
                  /\ calls[i].force = boolint(params.force)
             /\ pc = "done" =>
                  (Len(calls) = 1 /\ tasks[1].seenOK
                     /\ outcome = Changed("shutting_down"))
                  \/ (Len(calls) = 1 /\ outcome.kind = "fail")

\* C14: state=present: a VM of the vmid exists and force is not set: the
\* invocation ends with changed=false and no create call; force is set: the
\* gate does not short-circuit, and the create call, issued when node and
\* template exist, carries the force flag.
C14_PresenceGate ==
    (params.state = "present" /\ ReachedState /\ pc # "state") =>
        /\ (calls = <<>> /\ get_instance(cluster, params.vmid) # {} /\ ~params.force)
             => (pc = "done" /\ outcome = NoChange("already_exists"))
        /\ \A i \in 1..Len(calls) :
             /\ calls[i].op = "create"
             /\ calls[i].force = boolint(params.force)
             /\ calls[i].status # "absent" => params.force
        /\ params.force =>
             /\ outcome.msg # "already_exists"
             /\ (/\ node_check(ClusterNodes, params.node) # {}
                 /\ content_check(StorageContent, params.ostemplate) # {}
                 /\ pc # "create_instance") =>
                   (calls # <<>> /\ calls[1].force = 1)

\* C14 happens: force made the module create over an existing VM.
C14_Witness ==
    /\ params.state = "present"
    /\ params.force
    /\ calls # <<>>
    /\ calls[1].op = "create"
    /\ calls[1].status = "stopped"
    /\ calls[1].force = 1
    /\ outcome = Changed("deployed")

\* The message of the timeout branch of the poller of each call
TimeoutMsg(op) ==
    CASE op = "create"   -> "timeout:creating"
      [] op = "start"    -> "timeout:starting"
      [] op = "shutdown" -> "timeout:stopping"
      [] op = "umount"   -> "timeout:unmounting"
      [] op = "delete"   -> "timeout:removing"

\* C16: when the timeout counter of one of the five pollers reaches zero
\* before terminal success, the invocation ends with that poller's
\* 'Reached timeout while waiting for ...' error, and with no other error.
C16_TimeoutReport ==
    (tasks # <<>> /\ pollResult = "timeout") =>
        /\ pc = "done"
        /\ outcome = Fatal(TimeoutMsg(CurrentTask.op))

\* C19: an invocation that ends with changed=false has issued no mutating
\* call, whatever the state, status, force and timeout >= 0.
C19_UnchangedMeansNoCall ==
    (pc = "done" /\ outcome.kind = "exit" /\ ~outcome.changed) => calls = <<>>

\* C20: an invocation ends with changed=true only after every task handle it
\* obtained was seen by the poller with status 'stopped' and exitstatus 'OK'.
C20_ChangedMeansTasksSeenOK ==
    (outcome.kind = "exit" /\ outcome.changed) =>
        /\ tasks # <<>>
        /\ \A i \in 1..Len(tasks) : tasks[i].seenOK

(***************************************************************************)
(* Further properties of datadog_monitor.py, checked under MonitorSpec.    *)
(***************************************************************************)
\* C15: after the registration POST the outcome is changed=true exactly when
\* the response status is 200 and its body has a non-null id; a 200 response
\* with a null or absent id, and every other status, ends the invocation with
\* a fatal error outcome.
C15_RegistrationResponse ==
    (posts # <<>> /\ pc = "done") =>
        IF response.status = 200 /\ response.id \notin {None, "absent"}
        THEN outcome = Changed("created")
        ELSE outcome.kind = "fail"

(***************************************************************************)
(* Termination of the pollers, checked under TermSpec.                     *)
(***************************************************************************)
\* C17: for every integer timeout, positive, zero or negative, and a task
\* that never reaches terminal success, every poller stops polling and the
\* invocation ends: an invocation that has not ended always has a next step
\* inside the range the counter is followed over, that is, no poller is still
\* counting when the counter has left that range.
C17_PollerTerminates ==
    (tasks = <<>> \/ CurrentTask.exit # "OK") => (pc = "done" \/ ENABLED Next)

(***************************************************************************)
(* Two unsynchronized invocations, checked under RaceSpec.                 *)
(***************************************************************************)
\* C18: two invocations with state=present and force unset on the same vmid,
\* absent at the start, are not serialized by any lock or fence: the presence
\* gate stops an invocation only when the cluster lists a VM of the vmid,
\* never because the other invocation has a create call in flight; so both
\* can pass the gate and both issue a create call (C18_Witness).
C18_NoFence ==
    \A ctx \in {Context, other} :
        ctx.outcome = NoChange("already_exists") =>
            get_instance(cluster, params.vmid) # {}

\* Both invocations are past the presence gate and neither has issued its
\* create call: both lookups ran before either create.
C18_BothPastGate ==
    /\ calls = <<>>
    /\ pc = "create_instance"
    /\ other.pc = "create_instance"

\* C18 happens: each invocation issued a create call for the vmid, and the
\* cluster listed no VM of the vmid when either call reached it.
C18_Witness ==
    /\ Len(calls) = 2
    /\ calls[1].by # calls[2].by
    /\ \A i \in 1..2 :
         /\ calls[i].op = "create"
         /\ calls[i].vmid = int(params.vmid)
         /\ calls[i].status = "absent"

(***************************************************************************)
(* Repeated invocations of datadog_monitor.py, checked under RepeatSpec.   *)
(***************************************************************************)
\* C21: starting from a remote monitor set with at most one monitor of the
\* declared name, after any finite sequence of sequential invocations that
\* declare the name, whose lookups succeed or fail with a status other than
\* 200 and whose successful registration POSTs each add a monitor, the remote
\* set still holds at most one monitor of the name.
C21_NoDuplicates ==
    Cardinality(Named(monitors, dparams.name)) <= 1

\* The same, for the runs whose every lookup so far answered 200: as long as
\* no lookup has failed in the run in progress, a monitor is only ever added
\* to a set that the run saw without a monitor of the name.
C21_NoDuplicateAfterFetchedList ==
    (posts # <<>> /\ lookup = 200 /\ response.status = 200
        /\ response.id \notin {None, "absent"}) =>
        /\ Named(listing, dparams.name) = {}
        /\ monitors = Append(listing, [name |-> dparams.name,
                                       query |-> dparams.query])
====
